---- MODULE Spec2Model ----
(***************************************************************************)
(* Model of imessage.py: the data-preparation pipeline of load_data        *)
(* (drop_duplicates, update_reactions, update_text, update_dates) and the  *)
(* utility get_thread_messages.                                            *)
(*                                                                         *)
(* A DataFrame is a sequence of rows; a row is a record whose fields are   *)
(* the columns of the query plus `index`, the row's pandas index label.    *)
(* NULL / None / NaN is None (0) for guids.  An optional string is a       *)
(* tuple: <<>> is None, <<s>> is the string s, s a sequence of characters. *)
(* Boolean indexing df[mask] is SelectSeq.                                 *)
(***************************************************************************)
EXTENDS Integers, Sequences, FiniteSets, TLC

VARIABLES
    pc,          \* position of the caller: which function runs next
    conn,        \* sqlite3 connection of load_data: "none", "open", "closed"
    steps,       \* prepare_steps still to be applied by reduce
    arg,         \* the table handed to the function applied last
    df,          \* the current table
    err,         \* exception propagating to the caller, "none" if none
    thread_guid, \* argument of get_thread_messages
    res          \* result of get_thread_messages

vars == <<pc, conn, steps, arg, df, err, thread_guid, res>>

----------------------------------------------------------------------------
(* Bounds of the model *)

MaxDedupRows == 3
MaxDedupGuid == 2
MaxReactRows == 3
MaxTextRows == 2
MaxThreadRows == 3
MaxThreadGuid == 3
MaxLoadRows == 2

----------------------------------------------------------------------------
(* Values *)

None == 0

NoStr == <<>>

Str(s) == <<s>>

IsStr(o) == Len(o) = 1

Val(o) == o[1]

Range(s) == {s[i] : i \in 1..Len(s)}

Max(a, b) == IF a >= b THEN a ELSE b

Min(a, b) == IF a <= b THEN a ELSE b

\* a column of a table as the set of its values
Col(t, c) == {t[i][c] : i \in 1..Len(t)}

Row(i, g, tg, d, b, t, me, sms, rg, rt) ==
    [index |-> i, id |-> i, guid |-> g, thread_guid |-> tg, date |-> d,
     body |-> b, text |-> t, is_from_me |-> me, is_sms |-> sms,
     reaction_guid |-> rg, reaction_type |-> rt]

----------------------------------------------------------------------------
(* drop_duplicates *)

\* Series.duplicated(): every occurrence of a value but the first
duplicated(t, i) == \E j \in 1..(i - 1) : t[j].guid = t[i].guid

duplicate_guids(t) ==
    {t[i].index : i \in {k \in 1..Len(t) : duplicated(t, k) /\ t[k].is_sms = 1}}

drop_duplicates(t) ==
    LET keep(r) == r.index \notin duplicate_guids(t)
    IN  SelectSeq(t, keep)

----------------------------------------------------------------------------
(* update_reactions *)

reactions(t) ==
    LET keep(r) == r.reaction_guid # None
    IN  SelectSeq(t, keep)

\* self_reactions, were the flag of the reacted-to row tested the wrong way round
self_reactions_flag_inverted(t) ==
    LET mine(r) == r.reaction_type > 1000 /\ r.is_from_me = 1
        reacted == Col(SelectSeq(t, mine), "reaction_guid")
        keep(r) == r.guid \in reacted /\ r.is_from_me = 0
    IN  SelectSeq(t, keep)

self_reactions(t) ==
    LET mine(r) == r.reaction_type > 1000 /\ r.is_from_me = 1
        reacted == Col(SelectSeq(t, mine), "reaction_guid")
        keep(r) == r.guid \in reacted /\ r.is_from_me = 1
    IN  SelectSeq(t, keep)

out_reactions(t) ==
    LET selfs == Col(self_reactions(t), "guid")
        keep(r) == /\ r.reaction_type >= 2000
                   /\ r.reaction_type < 3000
                   /\ r.reaction_guid \notin selfs
    IN  SelectSeq(reactions(t), keep)

text_message_reactions(t) ==
    LET out == out_reactions(t)
        out_guid == Col(out, "guid")
        out_reaction_guid == Col(out, "reaction_guid")
        inA(r) == r.guid \in out_guid
        inB(r) == r.guid \in out_reaction_guid
        a == SelectSeq(t, inA)
        b == SelectSeq(t, inB)
        b_guid == Col(b, "guid")
        keep(r) == r.reaction_guid \notin b_guid
    IN  SelectSeq(a, keep)

main_reactions(t) ==
    LET unlinkable == Col(text_message_reactions(t), "guid")
        keep(r) == r.guid \notin unlinkable
    IN  SelectSeq(out_reactions(t), keep)

\* the boolean mask of the assignment: df["guid"].isin(main_reactions["reaction_guid"])
apply_mask(t) ==
    LET targets == Col(main_reactions(t), "reaction_guid")
    IN  [i \in 1..Len(t) |-> t[i].guid \in targets]

\* df.loc[mask, "reaction_type"] = values raises ValueError unless there are
\* as many masked rows as values
apply_raises(t) ==
    LET mask == apply_mask(t)
    IN  Cardinality({j \in 1..Len(t) : mask[j]}) # Len(main_reactions(t))

\* the k-th masked row takes the k-th value of main_reactions["reaction_type"].values
apply_reactions(t) ==
    LET mask == apply_mask(t)
        values == main_reactions(t)
        rank(i) == Cardinality({j \in 1..i : mask[j]})
    IN  [i \in 1..Len(t) |->
            IF mask[i]
            THEN [t[i] EXCEPT !.reaction_type = values[rank(i)].reaction_type]
            ELSE t[i]]

\* to_remove, were it to hold the applied reactions only
to_remove_applied_only(t) ==
    LET keep(r) == r.reaction_type >= 2000 /\ r.reaction_type < 3000
    IN  Col(SelectSeq(reactions(t), keep), "guid")

to_remove(t) == Col(reactions(t), "guid")

update_reactions(t) ==
    LET removed == to_remove(t)
        keep(r) == r.guid \notin removed
    IN  SelectSeq(apply_reactions(t), keep)

----------------------------------------------------------------------------
(* update_text *)

HeaderLen == 6

TrailerLen == 12

IsSpace(c) == c = " "

\* str.strip(): the string without its leading and trailing whitespace
strip(s) ==
    LET inked == {i \in 1..Len(s) : ~IsSpace(s[i])}
    IN  IF inked = {} THEN <<>>
        ELSE SubSeq(s, CHOOSE i \in inked : \A j \in inked : i <= j,
                       CHOOSE i \in inked : \A j \in inked : i >= j)

\* bytes.decode("utf-8", errors="replace"): a byte that is no UTF-8 becomes U+FFFD
decode(b) == [i \in 1..Len(b) |-> IF b[i] = "xFF" THEN "uFFFD" ELSE b[i]]

\* str() of the payload: the decoded string, or "None" for an absent body
str(body) == IF IsStr(body) THEN decode(Val(body)) ELSE <<"N", "o", "n", "e">>

\* `tok in s`; a marker is one symbol of the string
contains(s, tok) == \E i \in 1..Len(s) : s[i] = tok

\* str.split(tok): the pieces of s between the occurrences of tok
RECURSIVE split(_, _)
split(s, tok) ==
    IF ~contains(s, tok) THEN <<s>>
    ELSE LET i == CHOOSE k \in 1..Len(s) : s[k] = tok /\ \A j \in 1..(k - 1) : s[j] # tok
         IN  <<SubSeq(s, 1, i - 1)>> \o split(SubSeq(s, i + 1, Len(s)), tok)

\* s[6:-12]
slice(s) == SubSeq(s, Min(HeaderLen, Len(s)) + 1, Max(Len(s) - TrailerLen, 0))

parse_body(row) ==
    IF IsStr(row.text) /\ Val(row.text) # <<>>
    THEN Str(strip(Val(row.text)))
    ELSE
        LET s0 == str(row.body)
            s1 == split(s0, "NSNumber")[1]
            s2 == split(s1, "NSString")[2]
            s3 == split(s2, "NSDictionary")[1]
        IN  IF /\ contains(s0, "NSNumber")
               /\ contains(s1, "NSString")
               /\ contains(s2, "NSDictionary")
            THEN Str(strip(slice(s3)))
            ELSE NoStr

\* df["text"] = df.apply(parse_body, axis=1); df.drop(columns=["body"])
update_text(t) ==
    [i \in 1..Len(t) |->
        [c \in DOMAIN t[i] \ {"body"} |->
            IF c = "text" THEN parse_body(t[i]) ELSE t[i][c]]]

----------------------------------------------------------------------------
(* update_dates *)

NaT == -1

\* pd.to_datetime: the instant a date string names, NaT for a NULL
to_datetime(d) == IF IsStr(d) THEN Val(d)[1] ELSE NaT

update_dates(t) == [i \in 1..Len(t) |-> [t[i] EXCEPT !.date = to_datetime(t[i].date)]]

----------------------------------------------------------------------------
(* get_thread_messages *)

\* get_thread_messages, were the replies concatenated before the root
get_thread_messages_replies_first(t, T) ==
    LET root(r) == r.guid = T
        reply(r) == r.thread_guid = T
    IN  SelectSeq(t, reply) \o SelectSeq(t, root)

get_thread_messages(t, T) ==
    LET root(r) == r.guid = T
        reply(r) == r.thread_guid = T
    IN  SelectSeq(t, root) \o SelectSeq(t, reply)

----------------------------------------------------------------------------
(* load_data and its reduce over prepare_steps *)

prepare_steps == <<"drop_duplicates", "update_reactions", "update_text", "update_dates">>


ApplyDropDuplicates ==
    /\ pc = "reduce"
    /\ steps # <<>>
    /\ Head(steps) = "drop_duplicates"
    /\ arg' = df
    /\ df' = drop_duplicates(df)
    /\ steps' = Tail(steps)
    /\ UNCHANGED <<pc, conn, err, thread_guid, res>>

ApplyUpdateReactions ==
    /\ pc = "reduce"
    /\ steps # <<>>
    /\ Head(steps) = "update_reactions"
    /\ arg' = df
    /\ IF apply_raises(df)
       THEN /\ err' = "ValueError"
            /\ pc' = "raised"
            /\ UNCHANGED <<df, steps>>
       ELSE /\ df' = update_reactions(df)
            /\ steps' = Tail(steps)
            /\ UNCHANGED <<pc, err>>
    /\ UNCHANGED <<conn, thread_guid, res>>

\* On a table of no rows df.apply(axis=1) gives back a DataFrame, not a
\* Series; its assignment to the one column "text" raises ValueError in the
\* pandas versions that compare the column counts, and passes in the others.
ApplyUpdateText ==
    /\ pc = "reduce"
    /\ steps # <<>>
    /\ Head(steps) = "update_text"
    /\ arg' = df
    /\ \/ /\ df' = update_text(df)
          /\ steps' = Tail(steps)
          /\ UNCHANGED <<pc, err>>
       \/ /\ df = <<>>
          /\ err' = "ValueError"
          /\ pc' = "raised"
          /\ UNCHANGED <<df, steps>>
    /\ UNCHANGED <<conn, thread_guid, res>>

ApplyUpdateDates ==
    /\ pc = "reduce"
    /\ steps # <<>>
    /\ Head(steps) = "update_dates"
    /\ arg' = df
    /\ df' = update_dates(df)
    /\ steps' = Tail(steps)
    /\ UNCHANGED <<pc, conn, err, thread_guid, res>>

Return ==
    /\ pc = "reduce"
    /\ steps = <<>>
    /\ pc' = "done"
    /\ UNCHANGED <<conn, steps, arg, df, err, thread_guid, res>>

----------------------------------------------------------------------------
(* drop_duplicates on its own *)

DedupRow(i, c) == Row(i, c.guid, None, NoStr, NoStr, NoStr, 0, c.is_sms, None, 0)

InitDedup ==
    /\ pc = "reduce"
    /\ conn = "none"
    /\ steps = <<"drop_duplicates">>
    /\ arg = <<>>
    /\ \E n \in 0..MaxDedupRows :
        \E f \in [1..n -> [guid : 1..MaxDedupGuid, is_sms : {0, 1}]] :
            df = [i \in 1..n |-> DedupRow(i - 1, f[i])]
    /\ err = "none"
    /\ thread_guid = None
    /\ res = <<>>

NextDedup == ApplyDropDuplicates \/ Return

SpecDedup == InitDedup /\ [][NextDedup]_vars

\* drop_duplicates has returned: arg is its input, df its output
DedupDone == steps = <<>>

\* C5: no two rows of the output of drop_duplicates share a guid.
GuidUniqueAfterDedup ==
    DedupDone =>
        \A i, j \in 1..Len(df) : i # j => df[i].guid # df[j].guid

\* rows with is_sms = 1 whose guid is also on a row with is_sms = 0
SmsWithNative(t) ==
    {t[i].index : i \in {k \in 1..Len(t) :
        t[k].is_sms = 1 /\ \E j \in 1..Len(t) : t[j].guid = t[k].guid /\ t[j].is_sms = 0}}

\* C6: the rows removed by drop_duplicates are exactly the SMS rows whose guid
\* is also on a native row, wherever the two stand in the table.
DedupRemovesExactlySmsWithNative ==
    DedupDone => Col(df, "index") = Col(arg, "index") \ SmsWithNative(arg)

----------------------------------------------------------------------------
(* update_reactions on its own *)

\* guids an event row may point at; the last one is on no row of a table
\* of fewer rows
ReactTargets == {1, 2, 3}

\* a plain message, an applied reaction or a retraction from either side,
\* a sticker, or a game event
ReactChoices ==
    [reaction_guid : {None}, reaction_type : {0}, is_from_me : {0, 1}]
    \cup [reaction_guid : ReactTargets, reaction_type : {2000, 2001, 3000}, is_from_me : {0, 1}]
    \cup [reaction_guid : ReactTargets, reaction_type : {3, 1000}, is_from_me : {0}]

\* row i has guid i, but the last row may carry the guid of the first row (dup)
ReactGuid(i, dup) == IF i = dup THEN 1 ELSE i

ReactRow(i, c, dup) ==
    Row(i - 1, ReactGuid(i, dup), None, NoStr, NoStr, NoStr,
        c.is_from_me, 0, c.reaction_guid, c.reaction_type)

\* the rows whose reaction_guid is their own guid are the games (observation 3
\* of update_reactions)
GamesOnly(f, n, dup) ==
    \A i \in 1..n : (f[i].reaction_guid = ReactGuid(i, dup)) <=> (f[i].reaction_type = 3)

InitReact ==
    /\ pc = "reduce"
    /\ conn = "none"
    /\ steps = <<"update_reactions">>
    /\ arg = <<>>
    /\ \E n \in 0..MaxReactRows :
        \E f \in [1..n -> ReactChoices] :
            \E dup \in {0, n} \ {1} :
                /\ GamesOnly(f, n, dup)
                /\ df = [i \in 1..n |-> ReactRow(i, f[i], dup)]
    /\ err = "none"
    /\ thread_guid = None
    /\ res = <<>>

NextReact == ApplyUpdateReactions \/ Return

SpecReact == InitReact /\ [][NextReact]_vars

\* update_reactions has returned: arg is its input, df its output
ReactDone == steps = <<>>

\* update_reactions has returned or raised
ReactCalled == ReactDone \/ pc = "raised"

AppliedCodes == 2000..2005

RetractionCodes == 3000..3005

\* C1: every surviving row that a main reaction targets ends with the
\* reaction_type of the reaction row that targets it, in whatever order the
\* reaction rows and the target rows stand in the table.
ReactionAppliedToItsTarget ==
    ReactDone =>
        LET main == main_reactions(arg)
        IN  \A i \in 1..Len(df) : \A k \in 1..Len(main) :
                main[k].reaction_guid = df[i].guid
                    => df[i].reaction_type = main[k].reaction_type

\* two main reactions of the table target the same message
SharedTarget(t) ==
    LET main == main_reactions(t)
    IN  \E j, k \in 1..Len(main) :
            j # k /\ main[j].reaction_guid = main[k].reaction_guid

\* C2: when several main reactions target one message, update_reactions
\* raises nothing, the target ends with the code of one of them and the
\* reaction rows are gone.
MultipleReactionsResolved ==
    (ReactCalled /\ SharedTarget(arg)) =>
        LET main == main_reactions(arg)
        IN  /\ err = "none"
            /\ ReactDone
            /\ \A i \in 1..Len(df) :
                  df[i].guid \in Col(main, "reaction_guid") =>
                      \E k \in 1..Len(main) :
                          /\ main[k].reaction_guid = df[i].guid
                          /\ main[k].reaction_type = df[i].reaction_type
            /\ \A k \in 1..Len(main) : main[k].index \notin Col(df, "index")

\* m is a from-me row that a from-me row with an applied code reacts to
SelfReacted(t, m) ==
    /\ m.is_from_me = 1
    /\ \E k \in 1..Len(t) :
          /\ t[k].is_from_me = 1
          /\ t[k].reaction_type \in AppliedCodes
          /\ t[k].reaction_guid = m.guid

\* guids of the rows that are events (reaction_guid present)
EventGuids(t) == {t[k].guid : k \in {j \in 1..Len(t) : t[j].reaction_guid # None}}

\* C3: a from-me message that a from-me applied reaction targets keeps its
\* reaction_type, whatever else targets it, and no row reacting to it is left.
SelfReactionSuppressed ==
    ReactDone =>
        \A j \in 1..Len(arg) :
            SelfReacted(arg, arg[j]) =>
                /\ \A i \in 1..Len(df) :
                      df[i].index = arg[j].index
                          => df[i].reaction_type = arg[j].reaction_type
                /\ \A i \in 1..Len(df) : df[i].reaction_guid # arg[j].guid
                /\ arg[j].guid \notin EventGuids(arg) => arg[j] \in Range(df)

\* a self-reacted message that the other party reacted to as well came
\* through update_reactions
SelfReactionSuppressedWitness ==
    /\ ReactDone
    /\ \E j \in 1..Len(arg) :
          /\ SelfReacted(arg, arg[j])
          /\ arg[j] \in Range(df)
          /\ \E k \in 1..Len(arg) :
                /\ arg[k].is_from_me = 0
                /\ arg[k].reaction_type \in AppliedCodes
                /\ arg[k].reaction_guid = arg[j].guid

\* C4: the output of update_reactions holds no row that had a reaction_guid
\* in the input, applied or not, and keeps every row without one whose guid
\* no such row shares.
ReactionRowsRemoved ==
    ReactDone =>
        /\ Col(df, "index") \subseteq Col(arg, "index")
        /\ \A j \in 1..Len(arg) :
              arg[j].reaction_guid # None => arg[j].index \notin Col(df, "index")
        /\ \A j \in 1..Len(arg) :
              (arg[j].reaction_guid = None /\ arg[j].guid \notin EventGuids(arg))
                  => arg[j].index \in Col(df, "index")

\* a retraction and a reaction that was applied to nothing were removed, and
\* a message was kept
ReactionRowsRemovedWitness ==
    /\ ReactDone
    /\ df # <<>>
    /\ \E j \in 1..Len(arg) : arg[j].reaction_type \in RetractionCodes
    /\ \E j \in 1..Len(arg) :
          /\ arg[j].reaction_type \in AppliedCodes
          /\ arg[j].guid \notin Col(main_reactions(arg), "guid")

\* m is a from-me message with a from-me retraction x and, as its only
\* applied reaction, r of the other party
RetractedAndReacted(t, m, x, r) ==
    /\ m.is_from_me = 1 /\ m.reaction_guid = None
    /\ x.is_from_me = 1 /\ x.reaction_type \in RetractionCodes
    /\ x.reaction_guid = m.guid
    /\ r.is_from_me = 0 /\ r.reaction_type \in AppliedCodes
    /\ r.reaction_guid = m.guid
    /\ \A o \in Range(t) :
          /\ o.guid = m.guid => o = m
          /\ (o.reaction_guid = m.guid /\ o.reaction_type \in AppliedCodes) => o = r

\* C10: a retraction does not make its target a self-reacted message: a
\* from-me message with a from-me retraction and an applied reaction of the
\* other party ends with the other party's code, as without the retraction.
RetractionIgnored ==
    ReactDone =>
        \A m, x, r \in Range(arg) :
            RetractedAndReacted(arg, m, x, r) =>
                \E i \in 1..Len(df) :
                    df[i].index = m.index /\ df[i].reaction_type = r.reaction_type

----------------------------------------------------------------------------
(* update_text on its own *)

Pad(n) == [i \in 1..n |-> "x"]

TextCores == {<<>>, <<" ">>, <<"a">>, <<" ", "a", " ">>}

\* what stands between NSString and NSDictionary: a text with or without the
\* header and the trailer that parse_body cuts off
Payloads ==
    {Pad(h) \o core \o Pad(t) :
        h \in {0, HeaderLen}, t \in {0, TrailerLen}, core \in TextCores}

Archive(p) == <<"x", "NSString">> \o p \o <<"NSDictionary", "x", "NSNumber", "x">>

\* payloads that lack a marker, or hold the markers in another order
BrokenArchives ==
    { <<"x", "xFF">>,
      <<"NSString">> \o Pad(HeaderLen) \o <<"a">> \o Pad(TrailerLen) \o <<"NSDictionary">>,
      Pad(HeaderLen) \o <<"a">> \o Pad(TrailerLen) \o <<"NSDictionary", "NSNumber">>,
      <<"NSString">> \o Pad(HeaderLen) \o <<"a">> \o Pad(TrailerLen) \o <<"NSNumber">>,
      <<"NSNumber", "NSString">> \o Pad(HeaderLen) \o <<"a">> \o Pad(TrailerLen) \o <<"NSDictionary">>,
      <<"NSDictionary", "NSString">> \o Pad(HeaderLen) \o <<"a">> \o Pad(TrailerLen) \o <<"NSNumber">>,
      <<"NSString">> \o Pad(HeaderLen) \o <<"xFF", " ">> \o Pad(TrailerLen)
          \o <<"NSDictionary", "NSString", "NSNumber">> }

Bodies ==
    {NoStr} \cup {Str(Archive(p)) : p \in Payloads} \cup {Str(b) : b \in BrokenArchives}

Texts == {NoStr} \cup {Str(s) : s \in TextCores}

\* every payload under an absent or empty text, two payloads under a text
TextChoices ==
    [text : {NoStr, Str(<<>>)}, body : Bodies]
    \cup [text : Texts, body : {NoStr, Str(Archive(Pad(HeaderLen) \o <<"a">> \o Pad(TrailerLen)))}]

TextRow(i, c) == Row(i, i + 1, None, NoStr, c.body, c.text, 0, 0, None, 0)

InitText ==
    /\ pc = "reduce"
    /\ conn = "none"
    /\ steps = <<"update_text">>
    /\ arg = <<>>
    /\ \E n \in 0..MaxTextRows :
        \E f \in [1..n -> TextChoices] :
            df = [i \in 1..n |-> TextRow(i - 1, f[i])]
    /\ err = "none"
    /\ thread_guid = None
    /\ res = <<>>

NextText == ApplyUpdateText \/ Return

SpecText == InitText /\ [][NextText]_vars

\* update_text has returned: arg is its input, df its output
TextDone == steps = <<>>

\* C7: after update_text no row has a body, and the text of a row is absent
\* or a string that is not empty and has no whitespace at either end.
TextAbsentOrTrimmedNonEmpty ==
    TextDone =>
        \A i \in 1..Len(df) :
            /\ "body" \notin DOMAIN df[i]
            /\ \/ df[i].text = NoStr
               \/ /\ IsStr(df[i].text)
                  /\ Val(df[i].text) # <<>>
                  /\ strip(Val(df[i].text)) = Val(df[i].text)

----------------------------------------------------------------------------
(* get_thread_messages on a cleaned table *)

\* A reply names its root in thread_guid and the root names none ("First
\* message in thread does not have the thread_guid"): no row is its own root.
ThreadChoices ==
    {c \in [guid : 1..MaxThreadGuid, thread_guid : {None} \cup 1..MaxThreadGuid] :
        c.thread_guid # c.guid}

ThreadRow(i, c) ==
    [index |-> i, id |-> i, guid |-> c.guid, thread_guid |-> c.thread_guid,
     date |-> i, text |-> NoStr, is_from_me |-> 0, is_sms |-> 0,
     reaction_guid |-> None, reaction_type |-> 0]

InitThread ==
    /\ pc = "done"
    /\ conn = "none"
    /\ steps = <<>>
    /\ arg = <<>>
    /\ \E n \in 0..MaxThreadRows :
        \E f \in [1..n -> ThreadChoices] :
            df = [i \in 1..n |-> ThreadRow(i - 1, f[i])]
    /\ err = "none"
    /\ thread_guid = None
    /\ res = <<>>

\* the caller asks for a thread of the cleaned table, any number of times
GetThreadMessages ==
    /\ pc = "done"
    /\ \E T \in 1..(MaxThreadGuid + 1) :
        /\ thread_guid' = T
        /\ res' = get_thread_messages(df, T)
    /\ arg' = df
    /\ UNCHANGED <<pc, conn, steps, df, err>>

NextThread == GetThreadMessages

SpecThread == InitThread /\ [][NextThread]_vars

\* get_thread_messages has returned res for thread_guid
ThreadCalled == thread_guid # None

InThread(r) == r.guid = thread_guid \/ r.thread_guid = thread_guid

\* C8: get_thread_messages returns exactly the rows whose guid or thread_guid
\* is the root id, each once, the root first and the replies after it in
\* table order, nothing when no row matches, and leaves the table as it was.
ThreadSelection ==
    ThreadCalled =>
        /\ Range(res) = {r \in Range(df) : InThread(r)}
        /\ \A i, j \in 1..Len(res) : i # j => res[i].index # res[j].index
        /\ \A i, j \in 1..Len(res) :
              i < j => /\ ~(res[i].guid # thread_guid /\ res[j].guid = thread_guid)
                       /\ (res[i].guid = thread_guid <=> res[j].guid = thread_guid)
                              => res[i].index < res[j].index
        /\ (\A r \in Range(df) : ~InThread(r)) => res = <<>>
        /\ df = arg

\* a root that is not the first row of the table was returned ahead of its
\* replies, and a row of the table was left out
ThreadSelectionWitness ==
    /\ ThreadCalled
    /\ Len(res) >= 2
    /\ Len(res) < Len(df)
    /\ res[1].guid = thread_guid
    /\ res[1].index > res[2].index
    /\ res[2].thread_guid = thread_guid

----------------------------------------------------------------------------
(* load_data *)

\* the rows the query may return: attributedBody is never NULL, the rows come
\* ordered by date
LoadChoices ==
    [guid : {1, 2}, is_sms : {0}, is_from_me : {1}, text : {Str(<<"a">>)},
     reaction_guid : {None}, reaction_type : {0}]
    \cup [guid : {1, 2}, is_sms : {1}, is_from_me : {0}, text : {Str(<<" ">>), NoStr},
          reaction_guid : {None}, reaction_type : {0}]
    \cup [guid : {2}, is_sms : {0}, is_from_me : {0, 1}, text : {NoStr},
          reaction_guid : {1}, reaction_type : {2000, 2001, 3000}]

LoadRow(i, c) ==
    Row(i, c.guid, None, Str(<<i>>),
        Str(Archive(Pad(HeaderLen) \o <<"a">> \o Pad(TrailerLen))), c.text,
        c.is_from_me, c.is_sms, c.reaction_guid, c.reaction_type)

InitLoad ==
    /\ pc = "connect"
    /\ conn = "none"
    /\ steps = <<>>
    /\ arg = <<>>
    /\ df = <<>>
    /\ err = "none"
    /\ thread_guid = None
    /\ res = <<>>

\* conn = sqlite3.connect(db_path)
Connect ==
    /\ pc = "connect"
    /\ \/ /\ conn' = "open"
          /\ pc' = "read_sql_query"
          /\ UNCHANGED err
       \/ /\ err' = "OperationalError"
          /\ pc' = "raised"
          /\ UNCHANGED conn
    /\ UNCHANGED <<steps, arg, df, thread_guid, res>>

\* res = pd.read_sql_query(query, conn, ...)
ReadSqlQuery ==
    /\ pc = "read_sql_query"
    /\ \/ /\ \E n \in 0..MaxLoadRows :
              \E f \in [1..n -> LoadChoices] :
                  df' = [i \in 1..n |-> LoadRow(i - 1, f[i])]
          /\ pc' = "close"
          /\ UNCHANGED err
       \/ /\ err' = "DatabaseError"
          /\ pc' = "raised"
          /\ UNCHANGED df
    /\ UNCHANGED <<conn, steps, arg, thread_guid, res>>

\* conn.close(), and then reduce starts on prepare_steps
ConnClose ==
    /\ pc = "close"
    /\ conn' = "closed"
    /\ steps' = prepare_steps
    /\ pc' = "reduce"
    /\ UNCHANGED <<arg, df, err, thread_guid, res>>

NextLoad ==
    \/ Connect
    \/ ReadSqlQuery
    \/ ConnClose
    \/ ApplyDropDuplicates
    \/ ApplyUpdateReactions
    \/ ApplyUpdateText
    \/ ApplyUpdateDates
    \/ Return

SpecLoad == InitLoad /\ [][NextLoad]_vars

\* C9: load_data neither returns nor raises with the connection still open.
ConnectionReleased == pc \in {"done", "raised"} => conn # "open"

====
